---- MODULE Spec2Model ----
(***************************************************************************)
(* Model of the batch-caching runner batch_cache_from_csv_v002.py: the     *)
(* interchange-file parser read_csv, the main loop over scenes,            *)
(* process_hip_file, the Sequential and Parallel batch executors and the   *)
(* disk-polling completion detector wait_for_cache_completion, together    *)
(* with the external application that writes the frame files.              *)
(***************************************************************************)
EXTENDS Integers, Sequences, FiniteSets, TLC

VARIABLES
    csv,            \* the interchange file as csv.reader yields it: rows of fields
    hip_cache_map,  \* read_csv's dict, in insertion order: <<hip_file, batches>>
    pc,             \* position of the controlling thread
    exit_code,      \* -1 while running, then the process exit status
    si, bi, ui,     \* index of the scene, of its batch, of the unit in the batch
    loaded,         \* the document the external application holds ("" = none)
    nodes,          \* node graph of the loaded document, as far as queried
    save_button,    \* cache_file_nodes_parallel's local (0 = None), read by the lambdas
    threads,        \* cache_file_nodes_parallel's list of workers
    w,              \* locals of wait_for_cache_completion
    fs,             \* the filesystem: path -> size, for the files that exist
    cooks,          \* the external application's running cache writes
    triggered,      \* history: the pressButton calls that went through, in order
    errors,         \* history: the error lines printed
    batches_done,   \* history: the batches whose executor has returned
    polled,         \* one evaluation of the completion count (pure-function check)
    loads,          \* history: the scene paths given to hou.hipFile.load, in order
    table,          \* the UI's selected_table: rows of <<houdini_file, file_cache, mode>>
    saved,          \* the rows save_csv wrote
    parms           \* parm values of the node given to wait_for_cache_completion

vars == <<csv, hip_cache_map, pc, exit_code, si, bi, ui, loaded, nodes,
          save_button, threads, w, fs, cooks, triggered, errors, batches_done,
          polled, loads, table, saved, parms>>

-----------------------------------------------------------------------------
(* Bounds of the model. *)

MaxRows == 2        \* rows of an interchange file
MaxUnits == 2       \* unit refs of a row
MaxFrame == 2       \* last frame number of a frame range

-----------------------------------------------------------------------------
(* Strings: str.strip(), str.lower(), slicing and f'{f:04}'. *)

Whitespace == {" ", "\t", "\n", "\r"}

UpperCase == "ABCDEFGHIJKLMNOPQRSTUVWXYZ"
LowerCase == "abcdefghijklmnopqrstuvwxyz"

RECURSIVE LStrip(_)
LStrip(s) ==
    IF Len(s) > 0 /\ SubSeq(s, 1, 1) \in Whitespace
    THEN LStrip(SubSeq(s, 2, Len(s)))
    ELSE s

RECURSIVE RStrip(_)
RStrip(s) ==
    IF Len(s) > 0 /\ SubSeq(s, Len(s), Len(s)) \in Whitespace
    THEN RStrip(SubSeq(s, 1, Len(s) - 1))
    ELSE s

Strip(s) == RStrip(LStrip(s))

LowerChar(c) ==
    IF \E i \in 1..Len(UpperCase) : SubSeq(UpperCase, i, i) = c
    THEN LET i == CHOOSE j \in 1..Len(UpperCase) : SubSeq(UpperCase, j, j) = c
         IN  SubSeq(LowerCase, i, i)
    ELSE c

RECURSIVE Lower(_)
Lower(s) ==
    IF Len(s) = 0 THEN s
    ELSE LowerChar(SubSeq(s, 1, 1)) \o Lower(SubSeq(s, 2, Len(s)))

\* s[:-n]
DropLast(s, n) == IF Len(s) <= n THEN "" ELSE SubSeq(s, 1, Len(s) - n)

Digit(d) == SubSeq("0123456789", d + 1, d + 1)

RECURSIVE Decimal(_)
Decimal(n) == IF n < 10 THEN Digit(n) ELSE Decimal(n \div 10) \o Digit(n % 10)

RECURSIVE ZFill(_, _)
ZFill(s, width) == IF Len(s) >= width THEN s ELSE ZFill("0" \o s, width)

\* f'{f:04}'
Pad4(f) == IF f < 0 THEN "-" \o ZFill(Decimal(0 - f), 3) ELSE ZFill(Decimal(f), 4)

-----------------------------------------------------------------------------
(* read_csv *)

\* [path.strip() for path in row[2:] if path.strip()]
RECURSIVE StripNonEmpty(_)
StripNonEmpty(fields) ==
    IF fields = <<>> THEN <<>>
    ELSE LET p == Strip(Head(fields))
         IN  (IF p = "" THEN <<>> ELSE <<p>>) \o StripNonEmpty(Tail(fields))

\* a dict that knows only the key it was given last
HasKeyLast(map, key) == map # <<>> /\ map[Len(map)][1] = key

\* if hip_file not in hip_cache_map:
HasKey(map, key) == \E i \in 1..Len(map) : map[i][1] = key

\* a parser that joins a row to the earlier batch of its scene and mode
DictAppendMerged(map, key, batch) ==
    IF HasKey(map, key)
    THEN [i \in 1..Len(map) |->
            IF map[i][1] # key THEN map[i]
            ELSE IF \E j \in 1..Len(map[i][2]) : map[i][2][j][1] = batch[1]
            THEN <<key, [j \in 1..Len(map[i][2]) |->
                           IF map[i][2][j][1] = batch[1]
                           THEN <<batch[1], map[i][2][j][2] \o batch[2]>>
                           ELSE map[i][2][j]]>>
            ELSE <<key, Append(map[i][2], batch)>>]
    ELSE Append(map, <<key, <<batch>>>>)

\* a dict that moves a scene behind the others when a later row names it
DictAppendMovesLast(map, key, batch) ==
    IF HasKey(map, key)
    THEN LET i == CHOOSE j \in 1..Len(map) : map[j][1] = key
         IN  SubSeq(map, 1, i - 1) \o SubSeq(map, i + 1, Len(map))
               \o << <<key, Append(map[i][2], batch)>> >>
    ELSE Append(map, <<key, <<batch>>>>)

\* if hip_file not in hip_cache_map: hip_cache_map[hip_file] = []
\* hip_cache_map[hip_file].append(batch)
DictAppend(map, key, batch) ==
    IF HasKey(map, key)
    THEN [i \in 1..Len(map) |->
            IF map[i][1] = key THEN <<key, Append(map[i][2], batch)>> ELSE map[i]]
    ELSE Append(map, <<key, <<batch>>>>)

\* a parser that skips only the rows of fewer than 2 fields
SkipsRowFewerThan2(row) == Len(row) < 2

\* if len(row) < 3: continue
SkipsRow(row) == Len(row) < 3

\* one iteration of the for loop over the rows
ReadRow(map, row) ==
    IF SkipsRow(row) THEN map
    ELSE DictAppend(map, Strip(row[1]),
                    <<Lower(Strip(row[2])), StripNonEmpty(SubSeq(row, 3, Len(row)))>>)

RECURSIVE ReadRows(_, _)
ReadRows(map, rows) ==
    IF rows = <<>> THEN map ELSE ReadRows(ReadRow(map, Head(rows)), Tail(rows))

read_csv(rows) == ReadRows(<<>>, rows)

-----------------------------------------------------------------------------
(* The inputs: interchange files, and the documents of the external        *)
(* application (hou).                                                      *)

HipFiles == {"A.hip", "B.hip"}
NodePaths == <<"/obj/a", "/obj/b">>
ModeFields == {" Sequential", "PARALLEL ", "serial"}

\* unit refs of a row: the node paths in turn, starting at the k-th
UnitList(k) == [i \in 1..MaxUnits |-> NodePaths[((k + i) % 2) + 1]]

RunRows == {<<h, m>> \o UnitList(k) : h \in HipFiles, m \in ModeFields, k \in 1..2}
\* the files of up to MaxRows rows; the two scenes being alike, the first
\* row names A.hip
RunFiles == {f \in UNION {[1..n -> RunRows] : n \in 1..MaxRows} : f[1][1] = "A.hip"}

\* What a node of a document turns out to be when the runner queries it.
\* At hou.node(path), parm("execute") and pressButton():
\*   missing    hou.node(path) is None
\*   nobutton   the node has no "execute" parm
\*   raises     pressButton() raises hou.OperationFailed
\*   pressable  pressButton() returns and the application starts writing
\* and, of a pressable node, at the parm() calls of wait_for_cache_completion:
\*   nosop      the node has no "sopoutput" parm
\*   noparm     the node has no "filetype" (or "f1", "f2") parm
\*   ok         the four parms are there
LookupKinds == {"missing", "nobutton", "raises", "pressable"}
ProbeKinds == {"nosop", "noparm", "ok"}
Pressable == {"pressable"} \cup ProbeKinds
Unknown == "?"

\* parm("filetype").eval(), parm("f1").eval(), parm("f2").eval()
FileType(path) == IF path = "/obj/a" THEN 0 ELSE 1
F1(path) == IF path = "/obj/a" THEN 1 ELSE MaxFrame
F2(path) == MaxFrame

HipDir(hip) == IF hip = "A.hip" THEN "/A/" ELSE "/B/"
NodeName(path) == SubSeq(path, 6, Len(path))
AppExtension(path) == IF FileType(path) = 0 THEN ".bgeo.sc" ELSE ".vdb"

\* the file the external application writes for frame f of a node: its
\* output-path template $HIP/<node>.$F4.<extension> at that frame
AppFramePath(hip, path, f) ==
    HipDir(hip) \o NodeName(path) \o "." \o Pad4(f) \o AppExtension(path)

\* parm("sopoutput").eval(): the template at the document's current frame
SopOutputEval(hip, path) == AppFramePath(hip, path, 1)

-----------------------------------------------------------------------------
(* The external application: a trigger starts a cache write that goes on   *)
(* by itself, frame after frame; a frame file is created empty and then    *)
(* filled. The application is the process that runs the script (hython),   *)
(* so its writes end when the script exits.                                *)

Idle == [frame |-> 0, open |-> FALSE]
CookKeys == HipFiles \X {NodePaths[i] : i \in 1..Len(NodePaths)}

\* pressButton() on the "execute" parm of a node that takes it
StartCook(c, hip, path) ==
    IF c[<<hip, path>>] = Idle
    THEN [c EXCEPT ![<<hip, path>>] = [frame |-> F1(path), open |-> FALSE]]
    ELSE c

SetFile(f, name, size) == [n \in DOMAIN f \cup {name} |-> IF n = name THEN size ELSE f[n]]

CookOpen(hip, path) ==
    LET c == cooks[<<hip, path>>] IN
    /\ pc # "exit"
    /\ c.frame > 0 /\ ~c.open
    /\ fs' = SetFile(fs, AppFramePath(hip, path, c.frame), 0)
    /\ cooks' = [cooks EXCEPT ![<<hip, path>>].open = TRUE]
    /\ UNCHANGED <<csv, hip_cache_map, pc, exit_code, si, bi, ui, loaded, nodes,
                   save_button, threads, w, triggered, errors, batches_done,
                   polled, parms, loads, table, saved>>

CookClose(hip, path) ==
    LET c == cooks[<<hip, path>>] IN
    /\ pc # "exit"
    /\ c.frame > 0 /\ c.open
    /\ fs' = SetFile(fs, AppFramePath(hip, path, c.frame), 1)
    /\ cooks' = [cooks EXCEPT ![<<hip, path>>] =
                    IF c.frame >= F2(path) THEN Idle
                    ELSE [frame |-> c.frame + 1, open |-> FALSE]]
    /\ UNCHANGED <<csv, hip_cache_map, pc, exit_code, si, bi, ui, loaded, nodes,
                   save_button, threads, w, triggered, errors, batches_done,
                   polled, parms, loads, table, saved>>

-----------------------------------------------------------------------------
(* The completion count of one poll (wait_for_cache_completion, 105-109).  *)

\* a detector that takes an existing file for a written one
FrameCachedExists(f, name) == name \in DOMAIN f

\* a detector that counts the files that exist and are still empty
FrameCachedEmpty(f, name) == name \in DOMAIN f /\ f[name] = 0

\* os.path.exists(p) and os.path.getsize(p) > 0
FrameCached(f, name) == name \in DOMAIN f /\ f[name] > 0

\* sum(... for f in range(start_frame, end_frame + 1)), frame by frame
\* file_path + f'{f:04}' + file_extn
FrameFile(file_path, f, file_extn) == file_path \o Pad4(f) \o file_extn

RECURSIVE CountFrom(_, _, _, _, _)
CountFrom(f, file_path, file_extn, frame, end_frame) ==
    IF frame > end_frame THEN 0
    ELSE (IF FrameCached(f, FrameFile(file_path, frame, file_extn)) THEN 1 ELSE 0)
         + CountFrom(f, file_path, file_extn, frame + 1, end_frame)

CachedFrames(f, file_path, file_extn, start_frame, end_frame) ==
    CountFrom(f, file_path, file_extn, start_frame, end_frame)

-----------------------------------------------------------------------------
(* The runner. *)

\* polls and refreshes are history: whether the loop has polled, and the
\* pbar.refresh() calls of the loop so far
NoWait == [file_path |-> "", file_extn |-> "", start_frame |-> 0, end_frame |-> 0,
           total_frames |-> 0, cached_frames |-> 0, previous_cached_frames |-> 0,
           pbar_n |-> 0, polls |-> 0, refreshes |-> 0]
NoPoll == [prefix |-> "", extn |-> "", s |-> 0, e |-> 0, count |-> 0]
NoParms == [sopoutput |-> "", filetype |-> 0, frame |-> 0, f1 |-> 0, f2 |-> 0]

Init ==
    /\ csv \in RunFiles
    /\ hip_cache_map = <<>>
    /\ pc = "read_csv"
    /\ exit_code = -1
    /\ si = 0 /\ bi = 0 /\ ui = 0
    /\ loaded = ""
    /\ nodes = [i \in 1..Len(NodePaths) |-> Unknown]
    /\ save_button = 0
    /\ threads = <<>>
    /\ w = NoWait
    /\ fs = <<>>
    /\ cooks = [k \in CookKeys |-> Idle]
    /\ triggered = <<>>
    /\ errors = {}
    /\ batches_done = {}
    /\ polled = NoPoll
    /\ loads = <<>>
    /\ table = <<>>
    /\ saved = <<>>
    /\ parms = NoParms

HipFile == hip_cache_map[si][1]
ExecutionBatches == hip_cache_map[si][2]
ExecutionType == ExecutionBatches[bi][1]
FilecachePaths == ExecutionBatches[bi][2]
\* an executor that walks the unit refs from the last to the first
CachePathReversed == FilecachePaths[Len(FilecachePaths) + 1 - ui]

\* for cache_path in filecache_paths:
CachePath == FilecachePaths[ui]

NodeIndex(path) == CHOOSE i \in 1..Len(NodePaths) : NodePaths[i] = path

\* what querying the node can give: what it was found to be before, or, at
\* its first query in this document, any kind
KindsOf(path) ==
    IF nodes[NodeIndex(path)] = Unknown THEN LookupKinds ELSE {nodes[NodeIndex(path)]}

\* what the parm() calls of wait_for_cache_completion can give
ProbesOf(path) ==
    IF nodes[NodeIndex(path)] = "pressable" THEN ProbeKinds ELSE {nodes[NodeIndex(path)]}

\* hip_cache_map = read_csv(csv_file)
ReadCsv ==
    /\ pc = "read_csv"
    /\ hip_cache_map' = read_csv(csv)
    /\ si' = 1
    /\ pc' = "main"
    /\ UNCHANGED <<csv, exit_code, bi, ui, loaded, nodes, save_button, threads, w,
                   fs, cooks, triggered, errors, batches_done, polled, parms, loads, table, saved>>

\* for hip_file, execution_batches in hip_cache_map.items(): exhausted
MainDone ==
    /\ pc = "main"
    /\ si > Len(hip_cache_map)
    /\ pc' = "exit"
    /\ exit_code' = 0
    /\ UNCHANGED <<csv, hip_cache_map, si, bi, ui, loaded, nodes, save_button,
                   threads, w, fs, cooks, triggered, errors, batches_done,
                   polled, parms, loads, table, saved>>

\* what process_hip_file's "except Exception" handler does: print and sys.exit(1)
ExitOne == pc' = "exit" /\ exit_code' = 1

\* hou.hipFile.load(hip_file, suppress_save_prompt=True)
LoadHip ==
    /\ pc = "main"
    /\ si <= Len(hip_cache_map)
    /\ loads' = Append(loads, HipFile)
    /\ \E ok \in BOOLEAN :
         IF ok
         THEN /\ loaded' = HipFile
              /\ nodes' = [i \in 1..Len(NodePaths) |-> Unknown]
              /\ bi' = 1
              /\ pc' = "batches"
              /\ UNCHANGED <<exit_code, errors>>
         ELSE /\ ExitOne
              /\ errors' = errors \cup {<<"load", si, 0, 0>>}
              /\ UNCHANGED <<loaded, nodes, bi>>
    /\ UNCHANGED <<csv, hip_cache_map, si, ui, save_button, threads, w, fs, cooks,
                   triggered, batches_done, polled, parms, table, saved>>

\* the record of a pressButton() call that went through: the unit whose
\* executor or worker made the call, and the unit whose control it pressed
Trigger(for, pressed, path) ==
    [si |-> si, bi |-> bi, ui |-> for, pressed |-> pressed, path |-> path,
     mode |-> ExecutionType]

\* a dispatch that runs any mode other than "parallel" as Sequential
DispatchDefault(execution_type) ==
    IF execution_type = "parallel" THEN "par" ELSE "seq"

\* if execution_type == "sequential": ... elif execution_type == "parallel": ...
\* else: print the error (150-155)
Dispatch(execution_type) ==
    IF execution_type = "sequential" THEN "seq"
    ELSE IF execution_type = "parallel" THEN "par"
    ELSE "invalid"

\* for execution_type, filecache_paths in execution_batches: (149-157)
NextBatch ==
    /\ pc = "batches"
    /\ IF bi > Len(ExecutionBatches)
       THEN /\ si' = si + 1
            /\ bi' = 0
            /\ pc' = "main"
            /\ UNCHANGED <<ui, threads, save_button, errors>>
       ELSE IF Dispatch(ExecutionType) = "seq"
       THEN /\ ui' = 1
            /\ pc' = "seq"
            /\ UNCHANGED <<si, bi, threads, save_button, errors>>
       ELSE IF Dispatch(ExecutionType) = "par"
       THEN /\ ui' = 1
            /\ threads' = <<>>
            /\ save_button' = 0
            /\ pc' = "par"
            /\ UNCHANGED <<si, bi, errors>>
       ELSE /\ errors' = errors \cup {<<"mode", si, bi, 0>>}
            /\ bi' = bi + 1
            /\ UNCHANGED <<si, ui, pc, threads, save_button>>
    /\ UNCHANGED <<csv, hip_cache_map, exit_code, loaded, nodes, w, fs, cooks,
                   triggered, batches_done, polled, parms, loads, table, saved>>

\* the return of a batch executor to process_hip_file's loop; its locals
\* are gone
BatchReturns ==
    /\ batches_done' = batches_done \cup {<<si, bi>>}
    /\ bi' = bi + 1
    /\ ui' = 0
    /\ threads' = <<>>
    /\ save_button' = 0
    /\ pc' = "batches"

\* cache_file_nodes_sequential: one turn of the for loop up to the call of
\* wait_for_cache_completion (47-61)
SeqUnit ==
    /\ pc = "seq"
    /\ IF ui > Len(FilecachePaths)
       THEN /\ BatchReturns
            /\ UNCHANGED <<exit_code, nodes, cooks, triggered, errors>>
       ELSE \E kind \in KindsOf(CachePath) :
            /\ nodes' = [nodes EXCEPT ![NodeIndex(CachePath)] = kind]
            /\ IF kind = "missing"
               THEN /\ errors' = errors \cup {<<"node", si, bi, ui>>}
                    /\ ui' = ui + 1
                    /\ UNCHANGED <<pc, exit_code, bi, threads, save_button, cooks,
                                   triggered, batches_done>>
               ELSE IF kind = "nobutton"
               THEN /\ errors' = errors \cup {<<"button", si, bi, ui>>}
                    /\ ui' = ui + 1
                    /\ UNCHANGED <<pc, exit_code, bi, threads, save_button, cooks,
                                   triggered, batches_done>>
               ELSE IF kind = "raises"
               THEN /\ ExitOne
                    /\ errors' = errors \cup {<<"press", si, bi, ui>>}
                    /\ UNCHANGED <<bi, ui, threads, save_button, cooks, triggered,
                                   batches_done>>
               ELSE /\ triggered' = Append(triggered, Trigger(ui, ui, CachePath))
                    /\ cooks' = StartCook(cooks, loaded, CachePath)
                    /\ pc' = "wait"
                    /\ UNCHANGED <<exit_code, bi, ui, threads, save_button, errors,
                                   batches_done>>
    /\ UNCHANGED <<csv, hip_cache_map, si, loaded, w, fs, polled, parms, loads, table, saved>>

\* total_frames = end_frame-start_frame
TotalFrames(start_frame, end_frame) == end_frame - start_frame

\* file_path[:-12] with ".bgeo.sc" when filetype is 0, else file_path[:-8] with ".vdb"
FileExtn(file_extn_type) == IF file_extn_type = 0 THEN ".bgeo.sc" ELSE ".vdb"
\* a probe that strips 8 characters whatever the selector
FilePathStrip8(file_path, file_extn_type) == DropLast(file_path, 8)
FilePath(file_path, file_extn_type) ==
    IF file_extn_type = 0 THEN DropLast(file_path, 12) ELSE DropLast(file_path, 8)

\* previous_cached_frames = -1
PreviousAtStart == -1

\* wait_for_cache_completion up to the loop (66-101)
WaitProbe ==
    /\ pc = "wait"
    /\ \E kind \in ProbesOf(CachePath) :
       /\ nodes' = [nodes EXCEPT ![NodeIndex(CachePath)] = kind]
       /\ IF kind = "nosop"
          THEN /\ errors' = errors \cup {<<"sopoutput", si, bi, ui>>}
               /\ ui' = ui + 1
               /\ pc' = "seq"
               /\ UNCHANGED <<exit_code, w>>
          ELSE IF kind = "noparm"
          THEN /\ ExitOne
               /\ errors' = errors \cup {<<"parm", si, bi, ui>>}
               /\ UNCHANGED <<ui, w>>
          ELSE /\ w' = [file_path |-> FilePath(SopOutputEval(loaded, CachePath),
                                                FileType(CachePath)),
                        file_extn |-> FileExtn(FileType(CachePath)),
                        start_frame |-> F1(CachePath),
                        end_frame |-> F2(CachePath),
                        total_frames |-> TotalFrames(F1(CachePath), F2(CachePath)),
                        cached_frames |-> 0,
                        previous_cached_frames |-> PreviousAtStart,
                        pbar_n |-> 0,
                        polls |-> 0,
                        refreshes |-> 0]
               /\ pc' = "poll"
               /\ UNCHANGED <<exit_code, ui, errors>>
    /\ UNCHANGED <<csv, hip_cache_map, si, bi, loaded, save_button, threads,
                   fs, cooks, triggered, batches_done, polled, parms, loads, table, saved>>

\* while cached_frames < total_frames:
LoopRuns(cached_frames, total_frames) == cached_frames < total_frames

\* a loop that reports a changed count only when it is not 0
CountChangedNotZero(cached_frames, previous_cached_frames) ==
    cached_frames # previous_cached_frames /\ cached_frames # 0

\* if cached_frames != previous_cached_frames:
CountChanged(cached_frames, previous_cached_frames) ==
    cached_frames # previous_cached_frames

\* one turn of the polling loop (103-117)
WaitPoll ==
    /\ pc = "poll"
    /\ LoopRuns(w.cached_frames, w.total_frames)
    /\ LET n == CachedFrames(fs, w.file_path, w.file_extn, w.start_frame, w.end_frame) IN
       w' = [w EXCEPT !.cached_frames = n,
                      !.pbar_n = IF CountChanged(n, w.previous_cached_frames) THEN n ELSE @,
                      !.refreshes =
                          IF CountChanged(n, w.previous_cached_frames) THEN @ + 1 ELSE @,
                      !.previous_cached_frames = n,
                      !.polls = 1]
    /\ UNCHANGED <<csv, hip_cache_map, pc, exit_code, si, bi, ui, loaded, nodes,
                   save_button, threads, fs, cooks, triggered, errors, batches_done,
                   polled, parms, loads, table, saved>>

\* the loop ends and wait_for_cache_completion returns to the for loop; its
\* locals are gone
WaitReturns ==
    /\ pc = "poll"
    /\ ~LoopRuns(w.cached_frames, w.total_frames)
    /\ w' = NoWait
    /\ ui' = ui + 1
    /\ pc' = "seq"
    /\ UNCHANGED <<csv, hip_cache_map, exit_code, si, bi, loaded, nodes, save_button,
                   threads, fs, cooks, triggered, errors, batches_done,
                   polled, parms, loads, table, saved>>

\* cache_file_nodes_parallel: one turn of the for loop (124-137); the worker
\* is created and started, and runs its lambda later
ParUnit ==
    /\ pc = "par"
    /\ IF ui > Len(FilecachePaths)
       THEN /\ pc' = "join"
            /\ UNCHANGED <<ui, nodes, save_button, threads, errors>>
       ELSE \E kind \in KindsOf(CachePath) :
            /\ nodes' = [nodes EXCEPT ![NodeIndex(CachePath)] = kind]
            /\ ui' = ui + 1
            /\ IF kind = "missing"
               THEN /\ errors' = errors \cup {<<"node", si, bi, ui>>}
                    /\ UNCHANGED <<pc, save_button, threads>>
               ELSE IF kind = "nobutton"
               THEN /\ save_button' = 0
                    /\ errors' = errors \cup {<<"button", si, bi, ui>>}
                    /\ UNCHANGED <<pc, threads>>
               ELSE /\ save_button' = ui
                    /\ threads' = Append(threads, [unit |-> ui, state |-> "started"])
                    /\ UNCHANGED <<pc, errors>>
    /\ UNCHANGED <<csv, hip_cache_map, exit_code, si, bi, loaded, w, fs, cooks,
                   triggered, batches_done, polled, parms, loads, table, saved>>

\* the control a worker's lambda presses: save_button, looked up when the
\* lambda runs (133)
ButtonOf(t) == save_button

\* a worker runs its target, lambda: save_button.pressButton(); an exception
\* ends the worker alone
Worker(t) ==
    /\ threads[t].state = "started"
    /\ LET b == ButtonOf(t) IN
       IF b = 0
       THEN /\ threads' = [threads EXCEPT ![t].state = "died"]
            /\ UNCHANGED <<cooks, triggered>>
       ELSE LET path == FilecachePaths[b]
                kind == nodes[NodeIndex(path)]
            IN  IF kind = "raises"
                THEN /\ threads' = [threads EXCEPT ![t].state = "died"]
                     /\ UNCHANGED <<cooks, triggered>>
                ELSE /\ threads' = [threads EXCEPT ![t].state = "finished"]
                     /\ triggered' = Append(triggered, Trigger(threads[t].unit, b, path))
                     /\ cooks' = StartCook(cooks, loaded, path)
    /\ UNCHANGED <<csv, hip_cache_map, pc, exit_code, si, bi, ui, loaded, nodes,
                   save_button, w, fs, errors, batches_done, polled, parms, loads, table, saved>>

\* for thread in threads: thread.join() (140-141)
ParJoin ==
    /\ pc = "join"
    /\ \A t \in 1..Len(threads) : threads[t].state # "started"
    /\ BatchReturns
    /\ UNCHANGED <<csv, hip_cache_map, exit_code, si, loaded, nodes, w, fs, cooks,
                   triggered, errors, polled, parms, loads, table, saved>>

Next ==
    \/ ReadCsv
    \/ MainDone
    \/ LoadHip
    \/ NextBatch
    \/ SeqUnit
    \/ WaitProbe
    \/ WaitPoll
    \/ WaitReturns
    \/ ParUnit
    \/ \E t \in 1..Len(threads) : Worker(t)
    \/ ParJoin
    \/ \E k \in CookKeys : CookOpen(k[1], k[2])
    \/ \E k \in CookKeys : CookClose(k[1], k[2])

Spec == Init /\ [][Next]_vars

-----------------------------------------------------------------------------
(* Progress of the runner on a file of one row. The interpreter keeps      *)
(* running the controlling thread and every worker it started; nothing     *)
(* makes the external application go on writing.                           *)

RowFiles == {f \in RunFiles : Len(f) = 1}

InitRow ==
    /\ csv \in RowFiles
    /\ hip_cache_map = <<>>
    /\ pc = "read_csv"
    /\ exit_code = -1
    /\ si = 0 /\ bi = 0 /\ ui = 0
    /\ loaded = ""
    /\ nodes = [i \in 1..Len(NodePaths) |-> Unknown]
    /\ save_button = 0
    /\ threads = <<>>
    /\ w = NoWait
    /\ fs = <<>>
    /\ cooks = [k \in CookKeys |-> Idle]
    /\ triggered = <<>>
    /\ errors = {}
    /\ batches_done = {}
    /\ polled = NoPoll
    /\ loads = <<>>
    /\ table = <<>>
    /\ saved = <<>>
    /\ parms = NoParms

\* the steps of the controlling thread
Controller ==
    \/ ReadCsv
    \/ MainDone
    \/ LoadHip
    \/ NextBatch
    \/ SeqUnit
    \/ WaitProbe
    \/ WaitPoll
    \/ WaitReturns
    \/ ParUnit
    \/ ParJoin

\* the step of the t-th worker, if it was started
WorkerStep(t) == t <= Len(threads) /\ Worker(t)

Fairness ==
    /\ WF_vars(Controller)
    /\ \A t \in 1..MaxUnits : WF_vars(WorkerStep(t))

SpecFair == InitRow /\ [][Next]_vars /\ Fairness

\* the external application goes on writing the frame files of a cook it started
AppFairness ==
    \A k \in CookKeys :
        /\ WF_vars(CookOpen(k[1], k[2]))
        /\ WF_vars(CookClose(k[1], k[2]))

SpecLive == InitRow /\ [][Next]_vars /\ Fairness /\ AppFairness

-----------------------------------------------------------------------------
(* The caller: VJ_Pipeline_UI.py runs the runner as a subprocess and shows *)
(* its exit status (run_caching_thread).                                   *)

\* if process.returncode == 0: status_label.setText(...) else: ...
StatusLabel(returncode) ==
    IF returncode = 0 THEN "All caches completed successfully!"
    ELSE "Error during caching. Check logs."

-----------------------------------------------------------------------------
(* The UI's "Create CSV" tab: the table of selected file caches, one row   *)
(* for each <<houdini_file, file_cache, mode_dropdown>>, and save_csv. The *)
(* table holds no two rows of the same houdini_file and file_cache         *)
(* (add_selected skips them).                                              *)

MaxEntries == 3     \* rows of the selected table

DropdownItems == {"Sequential", "Parallel"}
NoDropdown == ""

TableRows == {<<h, NodePaths[i], m>> : h \in HipFiles, i \in 1..Len(NodePaths),
                                        m \in DropdownItems}
Tables ==
    {t \in UNION {[1..n -> TableRows] : n \in 0..MaxEntries} :
        \A i, j \in 1..Len(t) : (t[i][1] = t[j][1] /\ t[i][2] = t[j][2]) => i = j}

\* rendering_mode = mode_dropdown.currentText() if mode_dropdown else "Sequential"
RenderingMode(mode_dropdown) ==
    IF mode_dropdown = NoDropdown THEN "Sequential" ELSE mode_dropdown

\* a grouping by the Houdini file alone
DataKeyFileOnly(entry) == <<entry[1], "Sequential">>

\* key = (houdini_file, rendering_mode)
DataKey(entry) == <<entry[1], RenderingMode(entry[3])>>

\* a dict that knows only the key it was given last
InDataLast(data, key) == data # <<>> /\ data[Len(data)][1] = key

\* key in data
InData(data, key) == \E i \in 1..Len(data) : data[i][1] = key

\* if key not in data: data[key] = []
\* data[key].append(file_cache)
DataAppend(data, key, file_cache) ==
    IF InData(data, key)
    THEN [i \in 1..Len(data) |->
            IF data[i][1] = key THEN <<key, Append(data[i][2], file_cache)>> ELSE data[i]]
    ELSE Append(data, <<key, <<file_cache>>>>)

\* for row in range(self.selected_table.rowCount()): ...
RECURSIVE ExtractTable(_, _)
ExtractTable(data, rows) ==
    IF rows = <<>> THEN data
    ELSE ExtractTable(DataAppend(data, DataKey(Head(rows)), Head(rows)[2]), Tail(rows))

\* writer.writerow([houdini_file, mode.lower(), *file_caches])
WriteRow(item) == <<item[1][1], Lower(item[1][2])>> \o item[2]

\* the rows save_csv writes for a table, in the order of data.items()
save_csv(tbl) ==
    LET data == ExtractTable(<<>>, tbl)
    IN  [i \in 1..Len(data) |-> WriteRow(data[i])]

\* save_csv: nothing is written for an empty table, or when the user
\* cancels the file dialog
SaveCsv ==
    /\ pc = "table"
    /\ IF Len(table) = 0
       THEN UNCHANGED <<pc, saved>>
       ELSE \E file_path \in {"", "job.csv"} :
               IF file_path = ""
               THEN UNCHANGED <<pc, saved>>
               ELSE saved' = save_csv(table) /\ pc' = "saved"
    /\ UNCHANGED <<csv, hip_cache_map, exit_code, si, bi, ui, loaded, nodes,
                   save_button, threads, w, fs, cooks, triggered, errors,
                   batches_done, polled, parms, loads, table>>

InitSave ==
    /\ csv = <<>>
    /\ hip_cache_map = <<>>
    /\ pc = "table"
    /\ exit_code = -1
    /\ si = 0 /\ bi = 0 /\ ui = 0
    /\ loaded = ""
    /\ nodes = [i \in 1..Len(NodePaths) |-> Unknown]
    /\ save_button = 0
    /\ threads = <<>>
    /\ w = NoWait
    /\ fs = <<>>
    /\ cooks = [k \in CookKeys |-> Idle]
    /\ triggered = <<>>
    /\ errors = {}
    /\ batches_done = {}
    /\ polled = NoPoll
    /\ loads = <<>>
    /\ table \in Tables
    /\ saved = <<>>
    /\ parms = NoParms

NextSave == SaveCsv

SpecSave == InitSave /\ [][NextSave]_vars

-----------------------------------------------------------------------------
(* A job through the runner's read_csv and the UI's save_csv in turn: the  *)
(* parsed entries are selected in the table in their order, each with the  *)
(* dropdown item of its mode, the table is saved, and the saved file is    *)
(* read again.                                                             *)

MaxSaveRows == 3    \* rows of an interchange file that is parsed and saved

ValidRows ==
    { <<"A.hip", " Sequential", "/obj/a">>,
      <<" A.hip", "Parallel", "/obj/b", " ">>,
      <<"A.hip", "sequential", " /obj/c">>,
      <<"A.hip", "parallel", "/obj/c", "/obj/a">>,
      <<"B.hip", "PARALLEL ", "/obj/b", "/obj/a">>,
      <<"B.hip", "sequential", "/obj/c">> }

\* the dropdown item of a parsed mode
DropdownText(mode) == IF mode = "parallel" THEN "Parallel" ELSE "Sequential"

\* the table rows of one batch, of the batches of a scene, of a parsed job
BatchEntries(hip, batch) ==
    [i \in 1..Len(batch[2]) |-> <<hip, batch[2][i], DropdownText(batch[1])>>]
RECURSIVE SceneEntries(_, _)
SceneEntries(hip, batches) ==
    IF batches = <<>> THEN <<>>
    ELSE BatchEntries(hip, Head(batches)) \o SceneEntries(hip, Tail(batches))
RECURSIVE JobEntries(_)
JobEntries(map) ==
    IF map = <<>> THEN <<>>
    ELSE SceneEntries(Head(map)[1], Head(map)[2]) \o JobEntries(Tail(map))

\* the files that name no unit of a scene twice
ValidFiles ==
    {f \in UNION {[1..n -> ValidRows] : n \in 1..MaxSaveRows} :
        LET e == JobEntries(read_csv(f))
        IN  \A i, j \in 1..Len(e) : (e[i][1] = e[j][1] /\ e[i][2] = e[j][2]) => i = j}

InitRoundTrip ==
    /\ csv \in ValidFiles
    /\ hip_cache_map = <<>>
    /\ pc = "read_csv"
    /\ exit_code = -1
    /\ si = 0 /\ bi = 0 /\ ui = 0
    /\ loaded = ""
    /\ nodes = [i \in 1..Len(NodePaths) |-> Unknown]
    /\ save_button = 0
    /\ threads = <<>>
    /\ w = NoWait
    /\ fs = <<>>
    /\ cooks = [k \in CookKeys |-> Idle]
    /\ triggered = <<>>
    /\ errors = {}
    /\ batches_done = {}
    /\ polled = NoPoll
    /\ loads = <<>>
    /\ table = <<>>
    /\ saved = <<>>
    /\ parms = NoParms

\* the entries of the parsed job are added to the selected table
EnterJob ==
    /\ pc = "main"
    /\ table' = JobEntries(hip_cache_map)
    /\ pc' = "table"
    /\ UNCHANGED <<csv, hip_cache_map, exit_code, si, bi, ui, loaded, nodes,
                   save_button, threads, w, fs, cooks, triggered, errors,
                   batches_done, polled, parms, loads, saved>>

\* the saved file is selected (load_csv) and given to the runner, whose
\* csv.reader yields the rows csv.writer was given
OpenSaved ==
    /\ pc = "saved"
    /\ csv' = saved
    /\ pc' = "read_csv"
    /\ UNCHANGED <<hip_cache_map, exit_code, si, bi, ui, loaded, nodes,
                   save_button, threads, w, fs, cooks, triggered, errors,
                   batches_done, polled, parms, loads, table, saved>>

NextRoundTrip ==
    \/ ReadCsv
    \/ EnterJob
    \/ SaveCsv
    \/ OpenSaved

SpecRoundTrip == InitRoundTrip /\ [][NextRoundTrip]_vars

-----------------------------------------------------------------------------
(* The runner on files of more rows, each of one unit ref: the rows that   *)
(* name a scene need not follow one another.                               *)

MaxSceneRows == 3   \* rows of an interchange file of one-unit rows

SceneRows == {<<h, m, NodePaths[1]>> : h \in HipFiles, m \in {" Sequential", "PARALLEL "}}
SceneFiles ==
    {f \in UNION {[1..n -> SceneRows] : n \in 1..MaxSceneRows} : f[1][1] = "A.hip"}

InitScenes ==
    /\ csv \in SceneFiles
    /\ hip_cache_map = <<>>
    /\ pc = "read_csv"
    /\ exit_code = -1
    /\ si = 0 /\ bi = 0 /\ ui = 0
    /\ loaded = ""
    /\ nodes = [i \in 1..Len(NodePaths) |-> Unknown]
    /\ save_button = 0
    /\ threads = <<>>
    /\ w = NoWait
    /\ fs = <<>>
    /\ cooks = [k \in CookKeys |-> Idle]
    /\ triggered = <<>>
    /\ errors = {}
    /\ batches_done = {}
    /\ polled = NoPoll
    /\ loads = <<>>
    /\ table = <<>>
    /\ saved = <<>>
    /\ parms = NoParms

SpecScenes == InitScenes /\ [][Next]_vars

-----------------------------------------------------------------------------
(* The parser alone: read_csv on interchange files that hold short rows,   *)
(* padded fields and empty fields.                                         *)

MaxCsvRows == 3     \* rows of an interchange file given to the parser alone

ParseRows ==
    { <<>>,
      <<"A.hip">>,
      <<"C.hip", "parallel">>,
      <<" A.hip", "Parallel", "/obj/a", " ">>,
      <<"B.hip", "sequential", " /obj/b">>,
      <<"A.hip", "serial", "/obj/a", "/obj/b">> }
ParseFiles == UNION {[1..n -> ParseRows] : n \in 1..MaxCsvRows}

InitCsv ==
    /\ csv \in ParseFiles
    /\ hip_cache_map = <<>>
    /\ pc = "read_csv"
    /\ exit_code = -1
    /\ si = 0 /\ bi = 0 /\ ui = 0
    /\ loaded = ""
    /\ nodes = [i \in 1..Len(NodePaths) |-> Unknown]
    /\ save_button = 0
    /\ threads = <<>>
    /\ w = NoWait
    /\ fs = <<>>
    /\ cooks = [k \in CookKeys |-> Idle]
    /\ triggered = <<>>
    /\ errors = {}
    /\ batches_done = {}
    /\ polled = NoPoll
    /\ loads = <<>>
    /\ table = <<>>
    /\ saved = <<>>
    /\ parms = NoParms

NextCsv == ReadCsv

SpecCsv == InitCsv /\ [][NextCsv]_vars

-----------------------------------------------------------------------------
(* The completion count alone: one poll on any filesystem state.           *)

MaxPollFrame == 3   \* frames of the longest polled frame range

PollPrefix == "/c/x."
PollExtn == ".vdb"

\* the frame files that may lie on disk, by frame number 0, 1, 2, ...
PollNames ==
    << "/c/x.0000.vdb", "/c/x.0001.vdb", "/c/x.0002.vdb", "/c/x.0003.vdb",
       "/c/x.0004.vdb", "/c/x.0005.vdb", "/c/x.0006.vdb", "/c/x.0007.vdb",
       "/c/x.0008.vdb", "/c/x.0009.vdb", "/c/x.0010.vdb", "/c/x.0011.vdb",
       "/c/x.0012.vdb", "/c/x.0013.vdb", "/c/x.0014.vdb", "/c/x.0015.vdb" >>
PollName(f) == PollNames[f + 1]

\* the polled ranges lie in 9 .. 8 + MaxPollFrame, across the change from
\* one digit to two; the files on disk reach one frame beyond at both ends
PollRange == 9..(8 + MaxPollFrame)
PollFrames == 8..(9 + MaxPollFrame)

\* every filesystem over those files: each is absent, empty or of 7 bytes
PollFileSystems ==
    UNION { [{PollName(f) : f \in D} -> {0, 7}] : D \in SUBSET PollFrames }

InitPoll ==
    /\ csv = <<>>
    /\ hip_cache_map = <<>>
    /\ pc = "poll"
    /\ exit_code = -1
    /\ si = 0 /\ bi = 0 /\ ui = 0
    /\ loaded = ""
    /\ nodes = [i \in 1..Len(NodePaths) |-> Unknown]
    /\ save_button = 0
    /\ threads = <<>>
    /\ w = NoWait
    /\ fs \in PollFileSystems
    /\ cooks = [k \in CookKeys |-> Idle]
    /\ triggered = <<>>
    /\ errors = {}
    /\ batches_done = {}
    /\ polled = NoPoll
    /\ loads = <<>>
    /\ table = <<>>
    /\ saved = <<>>
    /\ parms = NoParms

\* the count of lines 105-109 for a frame range [s, e] on the filesystem
PollOnce ==
    /\ \E s \in PollRange : \E e \in PollRange :
         /\ s <= e
         /\ polled' = [prefix |-> PollPrefix, extn |-> PollExtn, s |-> s, e |-> e,
                       count |-> CachedFrames(fs, PollPrefix, PollExtn, s, e)]
    /\ UNCHANGED <<csv, hip_cache_map, pc, exit_code, si, bi, ui, loaded, nodes,
                   save_button, threads, w, fs, cooks, triggered, errors,
                   batches_done, loads, table, saved, parms>>

NextPoll == PollOnce

SpecPoll == InitPoll /\ [][NextPoll]_vars

-----------------------------------------------------------------------------
(* The completion loop alone, on a frame range of PollRange, while the     *)
(* external application writes: a frame file is created empty or an empty  *)
(* one is filled, in any order; none is deleted or truncated.              *)

\* the locals of wait_for_cache_completion when the loop starts (71-101)
LoopLocals(start_frame, end_frame) ==
    [file_path |-> PollPrefix,
     file_extn |-> PollExtn,
     start_frame |-> start_frame,
     end_frame |-> end_frame,
     total_frames |-> TotalFrames(start_frame, end_frame),
     cached_frames |-> 0,
     previous_cached_frames |-> PreviousAtStart,
     pbar_n |-> 0,
     polls |-> 0,
     refreshes |-> 0]

InitLoop ==
    /\ csv = <<>>
    /\ hip_cache_map = <<>>
    /\ pc = "poll"
    /\ exit_code = -1
    /\ si = 1 /\ bi = 1 /\ ui = 1
    /\ loaded = ""
    /\ nodes = [i \in 1..Len(NodePaths) |-> Unknown]
    /\ save_button = 0
    /\ threads = <<>>
    /\ w \in {LoopLocals(s, e) : s \in PollRange, e \in PollRange} \ {NoWait}
    /\ w.start_frame <= w.end_frame
    /\ fs = <<>>
    /\ cooks = [k \in CookKeys |-> Idle]
    /\ triggered = <<>>
    /\ errors = {}
    /\ batches_done = {}
    /\ polled = NoPoll
    /\ loads = <<>>
    /\ table = <<>>
    /\ saved = <<>>
    /\ parms = NoParms

AppWrites ==
    /\ \E f \in PollFrames :
         IF PollName(f) \notin DOMAIN fs
         THEN fs' = SetFile(fs, PollName(f), 0)
         ELSE fs[PollName(f)] = 0 /\ fs' = SetFile(fs, PollName(f), 7)
    /\ UNCHANGED <<csv, hip_cache_map, pc, exit_code, si, bi, ui, loaded, nodes,
                   save_button, threads, w, cooks, triggered, errors, batches_done,
                   polled, parms, loads, table, saved>>

NextLoop ==
    \/ WaitPoll
    \/ WaitReturns
    \/ AppWrites

SpecLoop == InitLoop /\ [][NextLoop]_vars

-----------------------------------------------------------------------------
(* The probe of wait_for_cache_completion alone (lines 71-87), on parm     *)
(* values drawn from ProbeParms: the evaluated output path, the format     *)
(* selector, the frame the path was evaluated at, and the frame range.     *)

ProbeStems == {"/c/x.", "/cache/sim_v2."}

\* evaluated sopoutput, filetype, and the frame current at the evaluation
ProbeCases ==
    {[sopoutput |-> "/c/x.0001.bgeo.sc",          filetype |-> 0, frame |-> 1],
     [sopoutput |-> "/c/x.0010.bgeo.sc",          filetype |-> 0, frame |-> 10],
     [sopoutput |-> "/cache/sim_v2.1001.bgeo.sc", filetype |-> 0, frame |-> 1001],
     [sopoutput |-> "/c/x.0001.vdb",              filetype |-> 1, frame |-> 1],
     [sopoutput |-> "/c/x.0011.vdb",              filetype |-> 1, frame |-> 11],
     [sopoutput |-> "/cache/sim_v2.9999.vdb",     filetype |-> 1, frame |-> 9999],
     [sopoutput |-> "/c/x.0009.vdb",              filetype |-> 2, frame |-> 9],
     [sopoutput |-> "/c/x.0012.vdb",              filetype |-> 5, frame |-> 12],
     [sopoutput |-> "/c/x.0001.bgeo.sc",          filetype |-> 1, frame |-> 1],
     [sopoutput |-> "/c/x.0001.vdb",              filetype |-> 0, frame |-> 1],
     [sopoutput |-> "/c/x.1.vdb",                 filetype |-> 1, frame |-> 1],
     [sopoutput |-> "x.vdb",                      filetype |-> 0, frame |-> 1]}

ProbeParms ==
    {[sopoutput |-> c.sopoutput, filetype |-> c.filetype, frame |-> c.frame,
      f1 |-> s, f2 |-> e] : c \in ProbeCases, s \in PollRange, e \in PollRange}

InitProbe ==
    /\ csv = <<>>
    /\ hip_cache_map = <<>>
    /\ pc = "wait"
    /\ exit_code = -1
    /\ si = 1 /\ bi = 1 /\ ui = 1
    /\ loaded = ""
    /\ nodes = [i \in 1..Len(NodePaths) |-> Unknown]
    /\ save_button = 0
    /\ threads = <<>>
    /\ w = NoWait
    /\ fs = <<>>
    /\ cooks = [k \in CookKeys |-> Idle]
    /\ triggered = <<>>
    /\ errors = {}
    /\ batches_done = {}
    /\ polled = NoPoll
    /\ loads = <<>>
    /\ table = <<>>
    /\ saved = <<>>
    /\ parms \in ProbeParms
    /\ parms.f1 <= parms.f2

\* lines 71-101 on the parm values of parms
ProbeOnce ==
    /\ pc = "wait"
    /\ w' = [file_path |-> FilePath(parms.sopoutput, parms.filetype),
             file_extn |-> FileExtn(parms.filetype),
             start_frame |-> parms.f1,
             end_frame |-> parms.f2,
             total_frames |-> TotalFrames(parms.f1, parms.f2),
             cached_frames |-> 0,
             previous_cached_frames |-> PreviousAtStart,
             pbar_n |-> 0,
             polls |-> 0,
             refreshes |-> 0]
    /\ pc' = "poll"
    /\ UNCHANGED <<csv, hip_cache_map, exit_code, si, bi, ui, loaded, nodes,
                   save_button, threads, fs, cooks, triggered, errors, batches_done,
                   polled, loads, table, saved, parms>>

NextProbe == ProbeOnce

SpecProbe == InitProbe /\ [][NextProbe]_vars

-----------------------------------------------------------------------------
(* Properties. Rows and batches are related through the interchange file   *)
(* itself: the scene number of a row is the rank of its scene among the    *)
(* scenes in order of first appearance, its batch number the rank of the   *)
(* row among the rows of its scene.                                        *)

\* the fields of the input files that carry padding or capitals, and what
\* they are once trimmed, and once trimmed and case-folded
Trimmed(field) ==
    IF field = " A.hip" THEN "A.hip"
    ELSE IF field = " /obj/b" THEN "/obj/b"
    ELSE field
Folded(field) ==
    IF field = " Sequential" THEN "sequential"
    ELSE IF field \in {"PARALLEL ", "Parallel"} THEN "parallel"
    ELSE field

LongRows == {r \in 1..Len(csv) : Len(csv[r]) >= 3}
HipOfRow(r) == Trimmed(csv[r][1])
FirstRows == {r \in LongRows : \A q \in LongRows : q < r => HipOfRow(q) # HipOfRow(r)}
FirstRowOf(r) == CHOOSE p \in LongRows :
                    /\ HipOfRow(p) = HipOfRow(r)
                    /\ \A o \in LongRows : HipOfRow(o) = HipOfRow(r) => p <= o
SceneNo(r) == Cardinality({q \in FirstRows : q <= FirstRowOf(r)})
BatchNo(r) == Cardinality({q \in LongRows : q <= r /\ HipOfRow(q) = HipOfRow(r)})
RowOf(s, b) == CHOOSE r \in LongRows : SceneNo(r) = s /\ BatchNo(r) = b
ModeOfRow(r) == Folded(csv[r][2])
Recognized == {"sequential", "parallel"}

\* the main loop has gone past batch b of scene s
Passed(s, b) == pc # "read_csv" /\ (si > s \/ (si = s /\ bi > b))

Entries(s, b) == {x \in 1..Len(triggered) : triggered[x].si = s /\ triggered[x].bi = b}

\* every frame file of the node exists and is non-empty
AllFramesOnDisk(hip, path) ==
    \A f \in F1(path)..F2(path) : FrameCached(fs, AppFramePath(hip, path, f))

KindOfUnit(u) == nodes[NodeIndex(FilecachePaths[u])]
WorkersDone == pc = "join" /\ \A t \in 1..Len(threads) : threads[t].state # "started"

\* C1: in a Sequential batch the triggers are issued on the units' own
\* controls in the order of the unit refs of the batch's row: of two triggers
\* of one batch the earlier one is that of the earlier unit ref, so no unit
\* is triggered twice.
C1_SequentialTriggerOrder ==
    \A r \in LongRows :
        LET batch == Entries(SceneNo(r), BatchNo(r)) IN
        \A x \in batch :
            LET a == triggered[x] IN
            a.mode = "sequential" =>
                /\ a.pressed = a.ui
                /\ a.path = Trimmed(csv[r][2 + a.ui])
                /\ \A y \in batch : x < y => a.ui < triggered[y].ui

C1_Witness ==
    \E x, y \in 1..Len(triggered) :
        /\ x < y
        /\ triggered[x].mode = "sequential"
        /\ triggered[x].si = triggered[y].si /\ triggered[x].bi = triggered[y].bi
        /\ triggered[x].path # triggered[y].path

\* C2: in a Sequential batch, when the trigger of the next unit is issued,
\* every frame file of the unit triggered before it, for every frame of
\* [start_frame, end_frame], exists and is non-empty.
C2_NextTriggerAfterCompletion ==
    [][ (/\ pc = "seq"
         /\ Len(triggered') = Len(triggered) + 1
         /\ Entries(si, bi) # {}
         /\ KindOfUnit(triggered[Len(triggered)].ui) = "ok")
        => AllFramesOnDisk(loaded, triggered[Len(triggered)].path) ]_vars

\* C3: a Parallel batch returns only when every frame file of every unit it
\* triggered exists and is non-empty.
C3_ParallelBatchWaits ==
    [][ (pc = "join" /\ pc' = "batches")
        => \A x \in Entries(si, bi) :
              nodes[NodeIndex(triggered[x].path)] \in Pressable
                 => AllFramesOnDisk(loaded, triggered[x].path) ]_vars

\* C4: in a Parallel batch, once the workers are through, every unit whose
\* node and control exist (and whose control takes the press) has been
\* triggered exactly once, each time by the worker created for it.
C4_ParallelTriggersExactlyOnce ==
    WorkersDone =>
        /\ \A u \in 1..Len(FilecachePaths) :
              KindOfUnit(u) \in Pressable
                 => Cardinality({x \in Entries(si, bi) : triggered[x].pressed = u}) = 1
        /\ \A x \in Entries(si, bi) : triggered[x].pressed = triggered[x].ui

\* C6: a scene that fails to load does not end the run while scenes are left.
C6_LoadFailureContinues ==
    \A k \in 1..Len(hip_cache_map) :
        (<<"load", k, 0, 0>> \in errors /\ k < Len(hip_cache_map)) => pc # "exit"

\* C7: in a Sequential batch the failure of a unit (node missing, control
\* missing, probed parameters missing, trigger raising) does not end the run
\* at that unit while units, batches or scenes are left.
C7_SequentialFailureConfined ==
    \A e \in errors :
        (/\ e[1] \in {"node", "button", "sopoutput", "parm", "press"}
         /\ hip_cache_map[e[2]][2][e[3]][1] = "sequential"
         /\ \/ e[4] < Len(hip_cache_map[e[2]][2][e[3]][2])
            \/ e[3] < Len(hip_cache_map[e[2]][2])
            \/ e[2] < Len(hip_cache_map))
        => ~(pc = "exit" /\ si = e[2] /\ bi = e[3] /\ ui = e[4])

\* C8: in a Parallel batch in which a unit fails (node missing, control
\* missing, trigger raising), every other unit whose control takes the press
\* is triggered by the time the workers are through.
C8_ParallelFailureIsolated ==
    (WorkersDone /\ \E u \in 1..Len(FilecachePaths) : KindOfUnit(u) \notin Pressable)
        => \A u \in 1..Len(FilecachePaths) :
              KindOfUnit(u) \in Pressable
                 => \E x \in Entries(si, bi) : triggered[x].pressed = u

\* C9: a row whose mode, trimmed and case-folded, is neither "sequential" nor
\* "parallel" fails as a row: its error is printed, none of its units is
\* triggered, no executor runs it, and the loop goes on with the next row;
\* a row whose mode differs from a recognized one only in case or padding
\* is executed in that mode.
C9_RowsByMode ==
    pc # "read_csv" =>
        \A r \in LongRows :
            LET s == SceneNo(r)
                b == BatchNo(r)
            IN  IF ModeOfRow(r) \in Recognized
                THEN /\ <<"mode", s, b, 0>> \notin errors
                     /\ Passed(s, b) => <<s, b>> \in batches_done
                     /\ \A x \in Entries(s, b) : triggered[x].mode = ModeOfRow(r)
                ELSE /\ <<s, b>> \notin batches_done
                     /\ Entries(s, b) = {}
                     /\ Passed(s, b) => <<"mode", s, b, 0>> \in errors

C9_UnrecognizedModeFailsRowOnly ==
    /\ []C9_RowsByMode
    /\ [][ (/\ pc = "batches"
            /\ bi <= Len(ExecutionBatches)
            /\ ModeOfRow(RowOf(si, bi)) \notin Recognized
            /\ <<pc, si, bi, ui, exit_code>>' # <<pc, si, bi, ui, exit_code>>)
           => (/\ pc' = "batches" /\ si' = si /\ bi' = bi + 1
               /\ exit_code' = exit_code /\ triggered' = triggered) ]_vars

C9_Witness ==
    \E r, q \in LongRows :
        /\ r < q
        /\ ModeOfRow(r) \notin Recognized
        /\ <<"mode", SceneNo(r), BatchNo(r), 0>> \in errors
        /\ csv[q][2] \notin Recognized
        /\ <<SceneNo(q), BatchNo(q)>> \in batches_done
        /\ Entries(SceneNo(q), BatchNo(q)) # {}

\* the frames of the polled range whose file exists with a non-zero size
PolledOnDisk ==
    {f \in polled.s..polled.e : PollName(f) \in DOMAIN fs /\ fs[PollName(f)] # 0}

\* C5: for a frame range [s, e] with s <= e and any filesystem state, the
\* count of one poll is the number of frames of [s, e] whose file
\* prefix + zero_pad4(frame) + extension exists with a non-zero size; it is
\* e - s + 1 exactly when every frame file exists and is non-empty.
C5_PollCountsNonEmptyFrames ==
    polled # NoPoll =>
        /\ polled.count = Cardinality(PolledOnDisk)
        /\ polled.count = polled.e - polled.s + 1
              <=> \A f \in polled.s..polled.e :
                     PollName(f) \in DOMAIN fs /\ fs[PollName(f)] # 0

C5_Witness ==
    /\ polled # NoPoll
    /\ polled.s < polled.e
    /\ polled.count = polled.e - polled.s
    /\ \E f \in polled.s..polled.e : PollName(f) \in DOMAIN fs /\ fs[PollName(f)] = 0
    /\ PollName(polled.e + 1) \in DOMAIN fs /\ fs[PollName(polled.e + 1)] # 0

IsLong(row) == Len(row) >= 3
ParsedBatches == [i \in 1..Len(hip_cache_map) |-> Len(hip_cache_map[i][2])]
RECURSIVE SumSeq(_)
SumSeq(q) == IF q = <<>> THEN 0 ELSE Head(q) + SumSeq(Tail(q))

\* C10: the parse skips every row of fewer than 3 fields and goes on: the
\* result is that of the file without its short rows, with one batch for
\* each row of 3 fields or more and no scene that only short rows name.
C10_ShortRowsSkipped ==
    pc = "main" =>
        /\ hip_cache_map = read_csv(SelectSeq(csv, IsLong))
        /\ SumSeq(ParsedBatches) = Cardinality(LongRows)
        /\ {hip_cache_map[i][1] : i \in 1..Len(hip_cache_map)} \subseteq {"A.hip", "B.hip"}
        /\ \A r \in LongRows : hip_cache_map[SceneNo(r)][1] \in {"A.hip", "B.hip"}

C10_Witness ==
    /\ pc = "main"
    /\ Len(csv) = 3
    /\ Len(csv[1]) >= 3 /\ Len(csv[2]) = 2 /\ Len(csv[3]) >= 3
    /\ SumSeq(ParsedBatches) = 2

\* the unit refs of row r as the parse keeps them
RowUnits(r) == [i \in 1..(Len(csv[r]) - 2) |-> Trimmed(csv[r][2 + i])]
RowsOfScene(s) == {r \in LongRows : SceneNo(r) = s}

\* batch b of scene s has been reported: its executor has returned, or its
\* mode error has been printed
Reported(s, b) == <<s, b>> \in batches_done \/ <<"mode", s, b, 0>> \in errors

\* C11: the rows that name a scene are its batches (as the main loop holds
\* them between two scenes), one batch for each row and in file order, also
\* when two rows have the same scene and mode; the
\* batches of a scene run one at a time in that order: every trigger presses
\* a unit ref of its own batch's row, the triggers of a scene are issued
\* batch after batch, and a batch has triggers only once every earlier batch
\* of its scene has been reported.
C11_BatchesInFileOrder ==
    pc # "read_csv" =>
        /\ pc = "main" =>
              /\ \A s \in 1..Len(hip_cache_map) :
                    Len(hip_cache_map[s][2]) = Cardinality(RowsOfScene(s))
              /\ \A r \in LongRows :
                    hip_cache_map[SceneNo(r)][2][BatchNo(r)]
                        = <<ModeOfRow(r), RowUnits(r)>>
        /\ \A x \in 1..Len(triggered) :
              LET a == triggered[x] IN
              /\ a.path = RowUnits(RowOf(a.si, a.bi))[a.pressed]
              /\ \A b \in 1..(a.bi - 1) : Reported(a.si, b)
              /\ \A y \in 1..Len(triggered) :
                    (x < y /\ triggered[y].si = a.si) => a.bi <= triggered[y].bi
        /\ \A d \in batches_done :
              pc \in {"seq", "wait", "poll", "par", "join"} => d # <<si, bi>>

C11_Witness ==
    \E r, q \in LongRows :
        /\ r < q
        /\ HipOfRow(r) = HipOfRow(q)
        /\ ModeOfRow(r) = ModeOfRow(q)
        /\ <<SceneNo(r), BatchNo(r)>> \in batches_done
        /\ <<SceneNo(q), BatchNo(q)>> \in batches_done
        /\ Entries(SceneNo(r), BatchNo(r)) # {}
        /\ Entries(SceneNo(q), BatchNo(q)) # {}

\* the scene paths of the file, and the one the main loop reaches k-th
ScenePaths == {HipOfRow(r) : r \in LongRows}
ScenePathNo(k) == HipOfRow(CHOOSE r \in FirstRows : SceneNo(r) = k)

\* C12: in one run no scene path is given to the external application's
\* load twice, whether the rows that name it follow one another or not; the
\* loads are those of the file's distinct scene paths in order of first
\* appearance, and a run that ends without being aborted has loaded every
\* one of them exactly once.
C12_SceneLoadedOnce ==
    /\ \A i, j \in 1..Len(loads) : i # j => loads[i] # loads[j]
    /\ \A i \in 1..Len(loads) : loads[i] = ScenePathNo(i)
    /\ (pc = "exit" /\ exit_code = 0) =>
          /\ Len(loads) = Cardinality(ScenePaths)
          /\ {loads[i] : i \in 1..Len(loads)} = ScenePaths

C12_Witness ==
    /\ Len(csv) = 3
    /\ csv[1][1] = "A.hip" /\ csv[2][1] = "B.hip" /\ csv[3][1] = "A.hip"
    /\ pc = "exit" /\ exit_code = 0
    /\ loads = <<"A.hip", "B.hip">>
    /\ \A r \in 1..3 : Entries(SceneNo(r), BatchNo(r)) # {}

\* C13: when a scene is loaded, no unit triggered under the scene loaded
\* before it is still in flight: every frame file of every unit triggered in
\* it, in a Sequential or a Parallel batch, on a node that has its control
\* and its parameters, exists and is non-empty.
C13_NoUnitInFlightAtLoad ==
    [][ (Len(loads') > Len(loads) /\ loaded' = loads'[Len(loads')])
        => \A x \in 1..Len(triggered) :
              (/\ hip_cache_map[triggered[x].si][1] = loaded
               /\ nodes[NodeIndex(triggered[x].path)] \in {"pressable", "ok"})
              => AllFramesOnDisk(loaded, triggered[x].path) ]_vars

\* C14: a run in which a unit failed (its node was not found, or its trigger
\* control was not found) does not end as a success: its exit status is not
\* the one the caller shows as "All caches completed successfully!".
C14_FailedUnitNotSuccess ==
    (pc = "exit" /\ \E e \in errors : e[1] \in {"node", "button"})
        => StatusLabel(exit_code) # "All caches completed successfully!"

\* C15: the runner's exit code is non-zero when, during the run, a scene
\* failed to load or a row had an unrecognized mode.
C15_ExitCodeByLoadAndMode ==
    (pc = "exit" /\ \E e \in errors : e[1] \in {"load", "mode"}) => exit_code # 0

\* C16: the wait for a triggered unit always ends: a runner that is in the
\* completion loop of a unit is eventually out of it, also when the external
\* application does not go on writing the unit's frame files.
C16_WaitAlwaysEnds == (pc = "poll") ~> (pc # "poll")

\* the mode of a table row as a lower-case word
LowerMode(m) == IF m = "Sequential" THEN "sequential"
                ELSE IF m = "Parallel" THEN "parallel" ELSE m

\* the pair of a table row, its first row in the table, and the file caches
\* of the table rows of a pair, in table order
PairOfEntry(i) == <<table[i][1], LowerMode(table[i][3])>>
FirstEntryOf(pair) == CHOOSE i \in 1..Len(table) :
                         /\ PairOfEntry(i) = pair
                         /\ \A j \in 1..Len(table) : PairOfEntry(j) = pair => i <= j
RECURSIVE CachesOfPair(_, _)
CachesOfPair(pair, i) ==
    IF i > Len(table) THEN <<>>
    ELSE (IF PairOfEntry(i) = pair THEN <<table[i][2]>> ELSE <<>>)
         \o CachesOfPair(pair, i + 1)

\* C18: save_csv writes one row for each distinct (scene, mode) pair of the
\* table: the rows come in the order in which their pairs first appear, the
\* mode is written in lower case, and a row holds the unit refs of all the
\* table rows of its pair, contiguous or not, in table order, so that every
\* unit ref of the table is written exactly once.
C18_OneRowPerSceneAndMode ==
    pc = "saved" =>
        /\ Len(saved) = Cardinality({PairOfEntry(i) : i \in 1..Len(table)})
        /\ \A k \in 1..Len(saved) :
              LET pair == <<saved[k][1], saved[k][2]>> IN
              /\ Len(saved[k]) >= 3
              /\ saved[k][2] \in {"sequential", "parallel"}
              /\ \E i \in 1..Len(table) : PairOfEntry(i) = pair
              /\ SubSeq(saved[k], 3, Len(saved[k])) = CachesOfPair(pair, 1)
              /\ \A l \in 1..Len(saved) :
                    k < l => /\ pair # <<saved[l][1], saved[l][2]>>
                             /\ \E j \in 1..Len(table) :
                                   PairOfEntry(j) = <<saved[l][1], saved[l][2]>>
                             /\ FirstEntryOf(pair)
                                   < FirstEntryOf(<<saved[l][1], saved[l][2]>>)
        /\ SumSeq([k \in 1..Len(saved) |-> Len(saved[k]) - 2]) = Len(table)

C18_Witness ==
    /\ pc = "saved"
    /\ Len(table) = 3
    /\ PairOfEntry(1) = PairOfEntry(3)
    /\ PairOfEntry(1) # PairOfEntry(2)
    /\ table[1][3] = "Parallel"
    /\ Len(saved) = 2
    /\ Len(saved[1]) = 4

\* the modes of a scene's batches in order of first appearance, and the unit
\* refs of its batches of one mode, batch after batch
RECURSIVE ModesInOrder(_, _)
ModesInOrder(batches, seen) ==
    IF batches = <<>> THEN <<>>
    ELSE IF Head(batches)[1] \in seen THEN ModesInOrder(Tail(batches), seen)
    ELSE <<Head(batches)[1]>> \o ModesInOrder(Tail(batches), seen \cup {Head(batches)[1]})
RECURSIVE UnitsOfMode(_, _)
UnitsOfMode(batches, mode) ==
    IF batches = <<>> THEN <<>>
    ELSE (IF Head(batches)[1] = mode THEN Head(batches)[2] ELSE <<>>)
         \o UnitsOfMode(Tail(batches), mode)

\* job q is job p with the batches of each scene grouped by mode
IsGrouping(p, q) ==
    /\ Len(q) = Len(p)
    /\ \A s \in 1..Len(p) :
          LET modes == ModesInOrder(p[s][2], {}) IN
          /\ q[s][1] = p[s][1]
          /\ Len(q[s][2]) = Len(modes)
          /\ \A j \in 1..Len(modes) :
                q[s][2][j] = <<modes[j], UnitsOfMode(p[s][2], modes[j])>>

\* C17: a file of valid rows that is parsed, saved and parsed again gives
\* the first parse with the batches of each scene grouped by mode, and
\* saving is idempotent after that one merge: parsing the saved file and
\* saving again writes the same rows.
C17_RoundTripUpToGrouping ==
    /\ [][ (pc = "read_csv" /\ saved # <<>> /\ pc' = "main")
           => (csv = saved /\ IsGrouping(hip_cache_map, hip_cache_map')) ]_vars
    /\ [][ (pc = "table" /\ saved # <<>> /\ pc' = "saved") => saved' = saved ]_vars

C17_Witness ==
    /\ pc = "saved"
    /\ csv = saved
    /\ Len(hip_cache_map) = 1
    /\ hip_cache_map[1][2] = << <<"sequential", <<"/obj/a", "/obj/c">>>>,
                                <<"parallel", <<"/obj/b">>>> >>
    /\ saved = << <<"A.hip", "sequential", "/obj/a", "/obj/c">>,
                  <<"A.hip", "parallel", "/obj/b">> >>

\* C19: in a Sequential batch no trigger is issued for a unit whose probe
\* fails: a unit whose node lacks the output-path parameter, or the
\* file-type, start-frame or end-frame parameter, has not been triggered.
C19_FailedProbeNeverTriggered ==
    \A e \in errors :
        e[1] \in {"sopoutput", "parm"}
            => \A x \in Entries(e[2], e[3]) :
                  ~(triggered[x].mode = "sequential" /\ triggered[x].ui = e[4])

\* a turn of the completion loop that changes the state
PollStep == pc = "poll" /\ pc' = "poll" /\ w' # w

\* C20: in one completion loop the progress bar is set to the count and
\* refreshed on the first poll, whatever it counts (0 too), and on every
\* later poll whose count differs from the count of the poll before it, and
\* on no other poll.
C20_ProgressOnChangeOnly ==
    [][ PollStep =>
           /\ w'.refreshes \in {w.refreshes, w.refreshes + 1}
           /\ w'.refreshes = w.refreshes + 1
                 <=> (w.polls = 0 \/ w'.cached_frames # w.cached_frames)
           /\ w'.refreshes = w.refreshes + 1 => w'.pbar_n = w'.cached_frames
           /\ w'.refreshes = w.refreshes => w'.pbar_n = w.pbar_n ]_vars

C20_Witness ==
    /\ pc = "poll"
    /\ w.refreshes = 2
    /\ w.pbar_n = w.cached_frames
    /\ w.cached_frames > 0

\* C21: in one completion loop, while no frame file is deleted or truncated,
\* the count of a poll is never below the count of the poll before it, and
\* every count lies between 0 and end_frame - start_frame + 1.
C21_CountNeverDecreases ==
    /\ [](pc = "poll" => w.cached_frames \in 0..(w.end_frame - w.start_frame + 1))
    /\ [][ (PollStep /\ w.polls = 1) => w'.cached_frames >= w.cached_frames ]_vars

C21_Witness ==
    /\ pc = "poll"
    /\ w.refreshes = 3
    /\ w.cached_frames = 2
    /\ w.end_frame - w.start_frame + 1 = 3

\* f'{f:04}' for the frames of ProbeCases and of PollRange, written out
FourDigits(f) ==
    CASE f = 1 -> "0001" [] f = 8 -> "0008" [] f = 9 -> "0009" [] f = 10 -> "0010"
      [] f = 11 -> "0011" [] f = 12 -> "0012" [] f = 13 -> "0013" [] f = 14 -> "0014"
      [] f = 1001 -> "1001" [] f = 9999 -> "9999"

ExtensionOf(filetype) == IF filetype = 0 THEN ".bgeo.sc" ELSE ".vdb"
StrippedOf(filetype) == IF filetype = 0 THEN 12 ELSE 8

\* the output path ends in a four-digit frame number and the extension of its selector
EndsInFrameAndExtension(p) ==
    \E stem \in ProbeStems :
        p.sopoutput = stem \o FourDigits(p.frame) \o ExtensionOf(p.filetype)

\* C22: selector 0 gives ".bgeo.sc" and strips the last 12 characters of the
\* output path, any other selector gives ".vdb" and strips the last 8; the
\* file checked for frame f is the stripped prefix, f padded to four digits
\* and the extension, so that for an output path ending in a four-digit frame
\* number and the matching extension the file checked for that frame is the
\* output path itself.
C22_ProbeDerivesFramePath ==
    pc = "poll" /\ parms # NoParms =>
        /\ w.file_extn = ExtensionOf(parms.filetype)
        /\ Len(w.file_path) =
             (IF Len(parms.sopoutput) > StrippedOf(parms.filetype)
              THEN Len(parms.sopoutput) - StrippedOf(parms.filetype) ELSE 0)
        /\ w.file_path = SubSeq(parms.sopoutput, 1, Len(w.file_path))
        /\ \A f \in w.start_frame..w.end_frame :
             FrameFile(w.file_path, f, w.file_extn)
               = w.file_path \o FourDigits(f) \o ExtensionOf(parms.filetype)
        /\ EndsInFrameAndExtension(parms) =>
             /\ w.file_path \in ProbeStems
             /\ FrameFile(w.file_path, parms.frame, w.file_extn) = parms.sopoutput

C22_Witness ==
    /\ pc = "poll"
    /\ parms.sopoutput = "/cache/sim_v2.1001.bgeo.sc"
    /\ parms.filetype = 0
    /\ w.file_path = "/cache/sim_v2."
    /\ w.start_frame < w.end_frame

\* the position of x's batch row in the file
TriggerRow(x) == RowOf(triggered[x].si, triggered[x].bi)

\* C23: the scenes run in the order of their first appearance in the file,
\* and every row of a scene is grouped under that first appearance: the map
\* holds the scenes in first-appearance order, and whenever the scene of row
\* r first appears before the scene of row q, a trigger of q's batch is
\* issued only after r's batch has been reported and after every trigger of
\* r's batch, also when r lies behind q in the file.
C23_ScenesInFirstAppearanceOrder ==
    pc # "read_csv" =>
        /\ pc = "main" =>
              /\ Len(hip_cache_map) = Cardinality(FirstRows)
              /\ \A r \in LongRows : hip_cache_map[SceneNo(r)][1] = HipOfRow(r)
        /\ \A i \in 1..Len(loads) : \A r \in LongRows :
              HipOfRow(r) = loads[i] => SceneNo(r) = i
        /\ \A r, q \in LongRows :
              FirstRowOf(r) < FirstRowOf(q) =>
                 \A x \in Entries(SceneNo(q), BatchNo(q)) :
                    /\ Reported(SceneNo(r), BatchNo(r))
                    /\ \A y \in Entries(SceneNo(r), BatchNo(r)) : y < x

C23_Witness ==
    /\ Len(csv) = 3
    /\ HipOfRow(1) = "A.hip" /\ HipOfRow(2) = "B.hip" /\ HipOfRow(3) = "A.hip"
    /\ \E x, y \in 1..Len(triggered) :
          /\ x < y
          /\ TriggerRow(x) = 3
          /\ TriggerRow(y) = 2
    /\ batches_done = {<<1, 1>>, <<1, 2>>, <<2, 1>>}

\* something the claim's hypotheses exclude has happened: an error line was
\* printed (load, mode, node, control, parameter, trigger) or a node was
\* found lacking, or a worker died
Unhealthy ==
    \/ errors # {}
    \/ exit_code = 1
    \/ \E i \in 1..Len(nodes) : nodes[i] \notin {Unknown, "pressable", "ok"}
    \/ \E t \in 1..Len(threads) : threads[t].state = "died"

\* the triggers issued on unit u of batch b of scene s
TriggersOf(s, b, u) == {x \in Entries(s, b) : triggered[x].pressed = u}

CompletedOnce ==
    /\ pc = "exit"
    /\ exit_code = 0
    /\ \A s \in 1..Len(hip_cache_map) : \A b \in 1..Len(hip_cache_map[s][2]) :
          \A u \in 1..Len(hip_cache_map[s][2][b][2]) :
             Cardinality(TriggersOf(s, b, u)) = 1

\* C24: under fairness of the runner, its workers and the external
\* application, a run in which every scene loads, every node and control
\* exists and no trigger raises eventually ends with exit status 0 having
\* triggered every unit of every batch of every scene exactly once.
C24_HealthyRunCompletes == <>(Unhealthy \/ CompletedOnce)

\* the same for the runs without a Parallel batch
C24_SequentialRunCompletes ==
    <>(Unhealthy \/ CompletedOnce \/ (pc # "read_csv" /\ \E r \in LongRows : ModeOfRow(r) = "parallel"))

\* every run of healthy nodes ends, whatever it triggered
C24_HealthyRunEnds == <>(Unhealthy \/ pc = "exit")

====
